---- MODULE Spec2Model ----
(***************************************************************************)
(* Model of src/src/agents/langgraph_task_agent.py: the LangGraphTaskAgent *)
(* orchestrator (session id -> thread id routing, one engine invocation    *)
(* per process_message call, the catch-all boundary), the assistant text   *)
(* extractor, and the tool catalog with the time utility.                  *)
(*                                                                         *)
(* Three specifications share the module:                                  *)
(*   Spec         process_message calls interleaved as asyncio coroutines  *)
(*   SpecExtract  _extract_assistant_text applied to bounded results       *)
(*   SpecTools    the six tools applied to a bounded task store            *)
(***************************************************************************)
EXTENDS Naturals, Sequences, FiniteSets

VARIABLES
    env,            \* what __init__ saw: endpoint, deployment name, init failure
    agent,          \* self.agent: None, or the compiled ReAct agent
    session_ids,    \* self.session_ids: session id -> thread id
    uuid_log,       \* history: uuid_log[t] is the call that drew uuid t from uuid4()
    calls,          \* the process_message coroutines started so far, in start order
    engine_calls,   \* history: the self.agent.ainvoke invocations, in order
    tool_executed,  \* history: the engine has executed a tool of the catalog
    result,         \* SpecExtract: the agent result handed to the extractor
    extracted,      \* SpecExtract: what _extract_assistant_text returned
    tasks,          \* SpecTools: the task store, id -> task
    next_id,        \* SpecTools: the store's next identifier
    tool_out        \* SpecTools: the last tool execution and its outcome

vars == <<env, agent, session_ids, uuid_log, calls, engine_calls, tool_executed,
          result, extracted, tasks, next_id, tool_out>>

orchVars == <<env, agent, session_ids, uuid_log, calls, engine_calls, tool_executed>>
extractVars == <<result, extracted>>
toolVars == <<tasks, next_id, tool_out>>

----------------------------------------------------------------------------
(* Bounds *)

MaxCalls == 2
MaxMsgs == 2
MaxTasks == 2

----------------------------------------------------------------------------
(* Python values *)

\* Python's None (also: getattr's default, dict.get's miss).
None == "<None>"

\* Truthiness of an Optional[str]: None and "" are falsy.
Falsy(v) == v = None \/ v = ""

\* Python's `a or b`.
Or(a, b) == IF Falsy(a) THEN b ELSE a

\* `is not None`: what a presence test (rather than a truth test) would be.
IsNotNone(v) == v # None

\* `if session_id:` -- the truth test that selects the session branch.
Truthy(v) == ~Falsy(v)

----------------------------------------------------------------------------
(* Reply texts *)

NotConfiguredText ==
    "LangGraph agent is not properly configured. Please check your Azure OpenAI settings."

ErrorText == "I apologize, but I encountered an error processing your request."

FallbackText == "I apologize, but I couldn't process your request."

\* ChatMessage(role=Role.ASSISTANT, content=...)
ChatMessage(content) == [role |-> "assistant", content |-> content]

NoReply == [role |-> None, content |-> None]

----------------------------------------------------------------------------
(* _extract_assistant_text *)

MsgShapes == {"obj", "dict"}
Contents == {None, "", "Hello", "This is the answer"}

\* (type, role) tags a message may carry; None is a missing field.
Tags == { <<None, None>>, <<"user", None>>, <<"ai", None>>, <<"assistant", None>>,
          <<None, "user">>, <<None, "assistant">>, <<"user", "assistant">> }

\* A message that is neither an attribute-bearing object nor a dict (a number, say).
ScalarMsg == [shape |-> "scalar", type |-> None, role |-> None, content |-> None]

Messages ==
    { [shape |-> s, type |-> t[1], role |-> t[2], content |-> c] :
        s \in MsgShapes, t \in Tags, c \in Contents } \cup {ScalarMsg}

RECURSIVE SeqsUpTo(_, _)
SeqsUpTo(S, n) ==
    IF n = 0 THEN {<<>>}
    ELSE LET shorter == SeqsUpTo(S, n - 1)
         IN shorter \cup { Append(q, x) : q \in {p \in shorter : Len(p) = n - 1}, x \in S }

\* getattr(msg, name, None): only an object has attributes named type/content.
getattr(msg, name) == IF msg.shape = "obj" THEN msg[name] ELSE None

\* An extractor that never looks into dicts.
dict_get_never(msg, name) == None

\* msg.get(name) if isinstance(msg, dict) else None
dict_get(msg, name) == IF msg.shape = "dict" THEN msg[name] ELSE None

msg_content(msg) == Or(getattr(msg, "content"), dict_get(msg, "content"))
msg_type(msg) == Or(getattr(msg, "type"), dict_get(msg, "type"))

\* if mtype in ("ai", "assistant") and content
Matches(msg) == msg_type(msg) \in {"ai", "assistant"} /\ ~Falsy(msg_content(msg))

\* A scan in list order: oldest first.
RECURSIVE ScanForward(_, _)
ScanForward(messages, i) ==
    IF i > Len(messages) THEN None
    ELSE IF Matches(messages[i]) THEN msg_content(messages[i])
    ELSE ScanForward(messages, i + 1)

RECURSIVE ScanReversed(_, _)
ScanReversed(messages, i) ==
    IF i = 0 THEN None
    ELSE IF Matches(messages[i]) THEN msg_content(messages[i])
    ELSE ScanReversed(messages, i - 1)

scan_oldest_first(messages) == ScanForward(messages, 1)

\* for msg in reversed(messages): ... return content     (None: fell through)
scan(messages) == ScanReversed(messages, Len(messages))

\* The value the try block produces, or the exception it raises.
TypeErrorRaised == "<raise TypeError>"

\* messages = result.get("messages", []) if isinstance(result, dict) else []
result_messages(r) ==
    IF r.kind = "dict" /\ r.messages_kind # "absent" THEN r.messages ELSE <<>>

try_body(r) ==
    IF r.kind = "dict" /\ r.messages_kind = "not_reversible"
    THEN TypeErrorRaised                       \* reversed(5), reversed(None)
    ELSE scan(result_messages(r))

_extract_assistant_text(r) ==
    LET v == try_body(r)
    IN IF v = TypeErrorRaised \/ v = None THEN FallbackText ELSE v

----------------------------------------------------------------------------
(* Agent results *)

ListResult(ms) == [kind |-> "dict", messages_kind |-> "list", messages |-> ms]

\* {}: a dict without a "messages" key.
NoMessagesResult == [kind |-> "dict", messages_kind |-> "absent", messages |-> <<>>]

\* {"messages": None}: a value reversed() rejects.
NotReversibleResult ==
    [kind |-> "dict", messages_kind |-> "not_reversible", messages |-> <<>>]

\* Not a dict at all (None, a string, a list).
NonDictResult == [kind |-> "other", messages_kind |-> "absent", messages |-> <<>>]

\* The results with at most n messages, and the malformed ones.
Results(n) ==
    { ListResult(ms) : ms \in SeqsUpTo(Messages, n) }
        \cup {NoMessagesResult, NotReversibleResult, NonDictResult}

Msg(shape, type, role, content) ==
    [shape |-> shape, type |-> type, role |-> role, content |-> content]

\* The results the engine hands back in Spec: a LangChain transcript ending in
\* the assistant's answer, one whose last assistant message is empty, an empty
\* transcript, a malformed result.
EngineResults ==
    { ListResult(<<Msg("obj", "user", None, "Hello"),
                   Msg("obj", "ai", None, "This is the answer")>>),
      ListResult(<<Msg("obj", "ai", None, "Hello"),
                   Msg("obj", "ai", None, "")>>),
      ListResult(<<>>),
      NotReversibleResult }

----------------------------------------------------------------------------
(* __init__ *)

\* os.getenv values: unset, set to the empty string, set.
EnvValues == {None, "", "set"}

\* The try block of __init__: the agent is built only when both settings are
\* truthy and nothing on the way (credential, client, create_react_agent) raised.
init_agent(e) ==
    IF Falsy(e.endpoint) \/ Falsy(e.deployment_name) THEN None     \* return
    ELSE IF e.init_raises THEN None                                \* except Exception
    ELSE "agent"

----------------------------------------------------------------------------
(* process_message: thread resolution *)

SessionIdInputs == {None, "", "s1", "s2"}
MessageInputs == {"hello", "list my tasks"}

\* str(uuid.uuid4()): a token no earlier call drew. Tokens are numbered from 1.
uuid4(log) == Len(log) + 1

\* self.session_ids.get(session_id): 0 stands for the miss (None).
ids_get(ids, sid) == IF sid \in DOMAIN ids THEN ids[sid] ELSE 0

\* self.session_ids[session_id] = thread_id
ids_set(ids, sid, t) == [k \in DOMAIN ids \cup {sid} |-> IF k = sid THEN t ELSE ids[k]]

Resolved(t, ids, log) == [thread_id |-> t, session_ids |-> ids, uuid_log |-> log]

\* The session branch without its lookup: a new thread on every call.
ResolveThread_NoLookup(ids, sid, log, c) ==
    LET fresh == uuid4(log)
        drawn == Append(log, [call |-> c, session_id |-> sid])
    IN IF Truthy(sid) THEN Resolved(fresh, ids_set(ids, sid, fresh), drawn)
       ELSE Resolved(fresh, ids, drawn)

\* The session branch taken for every session id, None included.
ResolveThread_NoBranch(ids, sid, log, c) ==
    LET fresh == uuid4(log)
        drawn == Append(log, [call |-> c, session_id |-> sid])
        known == ids_get(ids, sid)
    IN IF known # 0 THEN Resolved(known, ids, log)
       ELSE Resolved(fresh, ids_set(ids, sid, fresh), drawn)

\* Lines 209-215, run by call c: the thread id the call uses, and the session
\* map and the uuid history after it.
ResolveThread(ids, sid, log, c) ==
    LET fresh == uuid4(log)
        drawn == Append(log, [call |-> c, session_id |-> sid])
        known == ids_get(ids, sid)
    IN IF Truthy(sid)
       THEN IF known # 0 THEN Resolved(known, ids, log)
            ELSE Resolved(fresh, ids_set(ids, sid, fresh), drawn)
       ELSE Resolved(fresh, ids, drawn)

----------------------------------------------------------------------------
(* process_message: the coroutine *)

\* What ainvoke may raise: an ordinary error, or a cancellation of the awaiting
\* task (asyncio.CancelledError derives from BaseException, not Exception).
RaisedKinds == {"RuntimeError", "CancelledError"}

\* A handler that catches nothing.
Catches_Nothing(kind) == FALSE

\* except Exception
Catches(kind) == kind # "CancelledError"

Call(message, sid, pc, t, reply, error, after_failure) ==
    [message |-> message, session_id |-> sid, pc |-> pc, thread_id |-> t,
     reply |-> reply, error |-> error, after_failure |-> after_failure]

\* history: an earlier call with this session id has already failed
FailedBefore(sid) ==
    \E i \in 1..Len(calls) : calls[i].session_id = sid /\ calls[i].error # None

\* The guard without its test: the try block is entered with self.agent None.
not_configured_skipped(a) == FALSE

\* if not self.agent
not_configured(a) == a = None

\* A call from its entry to its first suspension, the await of ainvoke: the
\* coroutine runs these lines without yielding to the event loop.
process_message(message, sid) ==
    /\ Len(calls) < MaxCalls
    /\ LET c == Len(calls) + 1
           r == ResolveThread(session_ids, sid, uuid_log, c)
       IN IF not_configured(agent)
          THEN /\ calls' = Append(calls, Call(message, sid, "returned", 0,
                                   ChatMessage(NotConfiguredText), None, FALSE))
               /\ UNCHANGED <<session_ids, uuid_log, engine_calls>>
          ELSE /\ session_ids' = r.session_ids
               /\ uuid_log' = r.uuid_log
               /\ IF agent = None
                  THEN \* self.agent.ainvoke: AttributeError, caught at line 234
                       /\ calls' = Append(calls, Call(message, sid, "returned", r.thread_id,
                                           ChatMessage(ErrorText), "AttributeError", FALSE))
                       /\ UNCHANGED engine_calls
                  ELSE /\ calls' = Append(calls, Call(message, sid, "ainvoke", r.thread_id,
                                           NoReply, None, FailedBefore(sid)))
                       /\ engine_calls' = Append(engine_calls,
                              [call |-> c, thread_id |-> r.thread_id, message |-> message])
    /\ UNCHANGED <<env, agent, tool_executed, extractVars, toolVars>>

\* The engine, inside an invocation, executes a tool of the catalog (what the
\* tool does to the store is SpecTools' subject).
engine_tool_call(c) ==
    /\ c \in 1..Len(calls)
    /\ calls[c].pc = "ainvoke"
    /\ tool_executed' = TRUE
    /\ UNCHANGED <<env, agent, session_ids, uuid_log, calls, engine_calls,
                   extractVars, toolVars>>

\* ainvoke returns r: lines 227-232.
ainvoke_returns(c, r) ==
    /\ c \in 1..Len(calls)
    /\ calls[c].pc = "ainvoke"
    /\ calls' = [calls EXCEPT ![c].pc = "returned",
                              ![c].reply = ChatMessage(_extract_assistant_text(r))]
    /\ UNCHANGED <<env, agent, session_ids, uuid_log, engine_calls, tool_executed,
                   extractVars, toolVars>>

\* A handler that invokes the engine again instead of replying.
ainvoke_raises_Retry(c, kind) ==
    /\ c \in 1..Len(calls)
    /\ calls[c].pc = "ainvoke"
    /\ Len(engine_calls) < 2 * MaxCalls
    /\ engine_calls' = Append(engine_calls,
           [call |-> c, thread_id |-> calls[c].thread_id, message |-> calls[c].message])
    /\ UNCHANGED <<env, agent, session_ids, uuid_log, calls, tool_executed,
                   extractVars, toolVars>>

\* A handler that also forgets the failed turn's session.
ainvoke_raises_Forget(c, kind) ==
    /\ c \in 1..Len(calls)
    /\ calls[c].pc = "ainvoke"
    /\ calls' = [calls EXCEPT ![c].pc = "returned", ![c].error = kind,
                              ![c].reply = ChatMessage(ErrorText)]
    /\ session_ids' = [k \in DOMAIN session_ids \ {calls[c].session_id} |-> session_ids[k]]
    /\ UNCHANGED <<env, agent, uuid_log, engine_calls, tool_executed,
                   extractVars, toolVars>>

\* ainvoke raises: lines 234-239 when the handler catches it, otherwise the
\* error leaves process_message.
ainvoke_raises(c, kind) ==
    /\ c \in 1..Len(calls)
    /\ calls[c].pc = "ainvoke"
    /\ calls' = IF Catches(kind)
                THEN [calls EXCEPT ![c].pc = "returned", ![c].error = kind,
                                   ![c].reply = ChatMessage(ErrorText)]
                ELSE [calls EXCEPT ![c].pc = "raised", ![c].error = kind]
    /\ UNCHANGED <<env, agent, session_ids, uuid_log, engine_calls, tool_executed,
                   extractVars, toolVars>>

----------------------------------------------------------------------------
(* The time utility *)

TimezoneInputs == {"Asia/Kolkata", "UTC", "Invalid/Timezone", ""}

\* The names the system's timezone database resolves.
KnownZones == {"Asia/Kolkata", "UTC"}

\* ZoneInfo(timezone): ZoneInfoNotFoundError for an unknown key, ValueError for
\* a malformed one; both derive from Exception.
ZoneInfoError(tz) ==
    IF tz \in KnownZones THEN None
    ELSE IF tz = "" THEN "ZoneInfo keys must be normalized relative paths"
    ELSE "No time zone found with key"

\* now.strftime("%Y-%m-%d %H:%M:%S %Z%z")
strftime(tz) ==
    <<"<now>", " ", IF tz = "Asia/Kolkata" THEN "IST" ELSE "UTC",
      IF tz = "Asia/Kolkata" THEN "+0530" ELSE "+0000">>

Text(tokens) == [outcome |-> "text", text |-> tokens]
Raises(kind) == [outcome |-> "raise", text |-> <<kind>>]

\* get_time_func: the formatted time, or the failure text of the except branch.
get_time_func(tz) ==
    IF ZoneInfoError(tz) = None THEN Text(strftime(tz))
    ELSE Text(<<"Failed to get time for ", tz, ":", " ", ZoneInfoError(tz)>>)

----------------------------------------------------------------------------
(* The task store (TaskService) *)

Titles == {"milk", "mail"}
OptTitles == Titles \cup {None}
\* Optional[bool]: None stands for the omitted field.
OptBools == {"True", "False", None}

TaskIds == 1..(MaxTasks + 1)

Task(id, title, isComplete) == [id |-> id, title |-> title, isComplete |-> isComplete]

\* add_task: the new task and the store after it.
add_task(store, nid, title, isComplete) ==
    [task |-> Task(nid, title, isComplete),
     store |-> [k \in DOMAIN store \cup {nid} |->
                   IF k = nid THEN Task(nid, title, isComplete) ELSE store[k]]]

\* get_task_by_id: whether the task exists (the task is store[id]).
has_task(store, id) == id \in DOMAIN store

\* update_task: omitted fields are left unchanged; absent id: no change.
update_task_store(store, id, title, isComplete) ==
    IF id \notin DOMAIN store THEN store
    ELSE [store EXCEPT ![id].title = IF title = None THEN @ ELSE title,
                       ![id].isComplete = IF isComplete = None THEN @
                                          ELSE isComplete = "True"]

\* delete_task: absent id: no change (and False).
delete_task_store(store, id) == [k \in DOMAIN store \ {id} |-> store[k]]

----------------------------------------------------------------------------
(* The tool catalog *)

\* str(n) for the identifiers and counts the tools print.
str(n) == <<"0", "1", "2", "3", "4", "5", "6", "7", "8", "9">>[n + 1]

NotFoundText(id) == <<"Task with ID ", str(id), " not found.">>

\* createTask
create_task(store, nid, title, isComplete) ==
    [out |-> Text(<<"Task created successfully: \"", title, "\" (ID: ", str(nid), ")">>),
     store |-> add_task(store, nid, title, isComplete).store]

\* One line of the getTasks listing.
TaskLine(t) ==
    <<"- ", str(t.id), ": ", t.title, " (",
      IF t.isComplete THEN "Complete" ELSE "Incomplete", ")">>

\* '\n'.join(lines) over the tasks in identifier order, from id upwards.
RECURSIVE JoinLines(_, _)
JoinLines(store, id) ==
    IF id > MaxTasks + 1 THEN <<>>
    ELSE IF id \notin DOMAIN store THEN JoinLines(store, id + 1)
    ELSE LET rest == JoinLines(store, id + 1)
         IN TaskLine(store[id]) \o (IF rest = <<>> THEN <<>> ELSE <<"\n">> \o rest)

\* getTasks
get_tasks(store) ==
    IF DOMAIN store = {} THEN Text(<<"No tasks found.">>)
    ELSE Text(<<"Found ", str(Cardinality(DOMAIN store)), " tasks:\n">> \o JoinLines(store, 1))

\* getTask without its `if not task` test: task.id on None.
get_task_unchecked(store, id) ==
    IF ~has_task(store, id) THEN Raises("AttributeError")
    ELSE Text(<<"Task ", str(id), ": \"", store[id].title, "\" - Status: ",
                IF store[id].isComplete THEN "Complete" ELSE "Incomplete">>)

\* getTask
get_task(store, id) ==
    IF ~has_task(store, id) THEN Text(NotFoundText(id))
    ELSE Text(<<"Task ", str(id), ": \"", store[id].title, "\" - Status: ",
                IF store[id].isComplete THEN "Complete" ELSE "Incomplete">>)

\* updateTask
update_task(store, id, title, isComplete) ==
    [out |-> IF ~has_task(store, id) THEN Text(NotFoundText(id))
             ELSE Text(<<"Task ", str(id), " updated successfully.">>),
     store |-> update_task_store(store, id, title, isComplete)]

\* deleteTask
delete_task(store, id) ==
    [out |-> IF ~has_task(store, id) THEN Text(NotFoundText(id))
             ELSE Text(<<"Task ", str(id), " deleted successfully.">>),
     store |-> delete_task_store(store, id)]

\* getTime
get_time(tz) == get_time_func(tz)

----------------------------------------------------------------------------
(* The extractor applied to the result under test *)

extract ==
    /\ extracted = None
    /\ extracted' = _extract_assistant_text(result)
    /\ UNCHANGED <<result, orchVars, toolVars>>

----------------------------------------------------------------------------
(* SpecTools: the tools on a bounded store *)

\* What the last tool execution was given, and what came of it.
ToolOut(tool, arg, before, failed, out) ==
    [tool |-> tool, arg |-> arg, before |-> before, store_failed |-> failed,
     outcome |-> out.outcome, text |-> out.text]

NoToolOut == ToolOut(None, None, <<>>, FALSE, [outcome |-> None, text |-> <<>>])

\* A store call that fails unexpectedly raises through the tool: the tools have
\* no handler of their own.
StoreError == Raises("StoreError")

ToolFrame == UNCHANGED <<orchVars, extractVars>>

createTask(title, isComplete, fails) ==
    /\ next_id <= MaxTasks
    /\ LET r == create_task(tasks, next_id, title, isComplete)
       IN IF fails
          THEN /\ tool_out' = ToolOut("createTask", title, tasks, TRUE, StoreError)
               /\ UNCHANGED <<tasks, next_id>>
          ELSE /\ tool_out' = ToolOut("createTask", title, tasks, FALSE, r.out)
               /\ tasks' = r.store
               /\ next_id' = next_id + 1
    /\ ToolFrame

getTasks(fails) ==
    /\ tool_out' = ToolOut("getTasks", None, tasks, fails,
                           IF fails THEN StoreError ELSE get_tasks(tasks))
    /\ UNCHANGED <<tasks, next_id>>
    /\ ToolFrame

getTask(id, fails) ==
    /\ tool_out' = ToolOut("getTask", str(id), tasks, fails,
                           IF fails THEN StoreError ELSE get_task(tasks, id))
    /\ UNCHANGED <<tasks, next_id>>
    /\ ToolFrame

updateTask(id, title, isComplete, fails) ==
    /\ LET r == update_task(tasks, id, title, isComplete)
       IN IF fails
          THEN /\ tool_out' = ToolOut("updateTask", str(id), tasks, TRUE, StoreError)
               /\ UNCHANGED tasks
          ELSE /\ tool_out' = ToolOut("updateTask", str(id), tasks, FALSE, r.out)
               /\ tasks' = r.store
    /\ UNCHANGED next_id
    /\ ToolFrame

deleteTask(id, fails) ==
    /\ LET r == delete_task(tasks, id)
       IN IF fails
          THEN /\ tool_out' = ToolOut("deleteTask", str(id), tasks, TRUE, StoreError)
               /\ UNCHANGED tasks
          ELSE /\ tool_out' = ToolOut("deleteTask", str(id), tasks, FALSE, r.out)
               /\ tasks' = r.store
    /\ UNCHANGED next_id
    /\ ToolFrame

getTime(tz) ==
    /\ tool_out' = ToolOut("getTime", tz, tasks, FALSE, get_time(tz))
    /\ UNCHANGED <<tasks, next_id>>
    /\ ToolFrame

----------------------------------------------------------------------------
(* Specifications *)

ExtractIdle == result = NonDictResult /\ extracted = None

ToolsIdle == tasks = <<>> /\ next_id = 1 /\ tool_out = NoToolOut

OrchIdle ==
    /\ env = [endpoint |-> None, deployment_name |-> None, init_raises |-> FALSE]
    /\ agent = init_agent(env)
    /\ session_ids = <<>>
    /\ uuid_log = <<>>
    /\ calls = <<>>
    /\ engine_calls = <<>>
    /\ tool_executed = FALSE

\* Spec: process_message calls interleaved at their await.
Init ==
    /\ env \in [endpoint : EnvValues, deployment_name : EnvValues, init_raises : BOOLEAN]
    /\ agent = init_agent(env)
    /\ session_ids = <<>>
    /\ uuid_log = <<>>
    /\ calls = <<>>
    /\ engine_calls = <<>>
    /\ tool_executed = FALSE
    /\ ExtractIdle
    /\ ToolsIdle

Next ==
    \/ \E m \in MessageInputs, s \in SessionIdInputs : process_message(m, s)
    \/ \E c \in 1..MaxCalls : engine_tool_call(c)
    \/ \E c \in 1..MaxCalls, r \in EngineResults : ainvoke_returns(c, r)
    \/ \E c \in 1..MaxCalls, k \in RaisedKinds : ainvoke_raises(c, k)

Spec == Init /\ [][Next]_vars

\* SpecExtract: the extractor applied to one result drawn from Results.
InitExtract ==
    /\ OrchIdle
    /\ ToolsIdle
    /\ result \in Results(MaxMsgs)
    /\ extracted = None

NextExtract == extract

SpecExtract == InitExtract /\ [][NextExtract]_vars

\* SpecTools: the tools applied to the store, in any order.
InitTools ==
    /\ OrchIdle
    /\ ExtractIdle
    /\ ToolsIdle

NextTools ==
    \/ \E t \in Titles, b \in BOOLEAN, f \in BOOLEAN : createTask(t, b, f)
    \/ \E f \in BOOLEAN : getTasks(f)
    \/ \E i \in TaskIds, f \in BOOLEAN : getTask(i, f)
    \/ \E i \in TaskIds, t \in OptTitles, b \in OptBools, f \in BOOLEAN : updateTask(i, t, b, f)
    \/ \E i \in TaskIds, f \in BOOLEAN : deleteTask(i, f)
    \/ \E z \in TimezoneInputs : getTime(z)

SpecTools == InitTools /\ [][NextTools]_vars

----------------------------------------------------------------------------
(* Claims *)

\* A session id that names a session: present and not the empty string.
NamesSession(s) == s # None /\ s # ""

Configured == agent # None

CallIds == 1..Len(calls)

\* The engine invocations made on behalf of call i.
InvocationsOf(i) == {e \in 1..Len(engine_calls) : engine_calls[e].call = i}

\* The thread ids uuid4 produced for session id s.
GeneratedFor(s) == {t \in 1..Len(uuid_log) : uuid_log[t].session_id = s}

\* C1: overlapping calls with the same, previously unknown session id: exactly
\* one thread id is ever generated and stored for it, the stored value is that
\* one, and every such call invokes the engine with it.
C1_OneThreadPerSession ==
    Configured =>
        \A s \in SessionIdInputs : NamesSession(s) =>
            /\ Cardinality(GeneratedFor(s)) <= 1
            /\ \A i \in CallIds : calls[i].session_id = s =>
                  /\ s \in DOMAIN session_ids
                  /\ GeneratedFor(s) = {session_ids[s]}
                  /\ calls[i].thread_id = session_ids[s]
                  /\ \A e \in InvocationsOf(i) : engine_calls[e].thread_id = session_ids[s]
                  /\ InvocationsOf(i) # {}

\* C1 witness: two calls with the same session id are both suspended in ainvoke.
C1_Witness ==
    \E i, j \in CallIds :
        /\ i < j
        /\ NamesSession(calls[i].session_id)
        /\ calls[i].session_id = calls[j].session_id
        /\ calls[i].pc = "ainvoke" /\ calls[j].pc = "ainvoke"
        /\ calls[i].thread_id = calls[j].thread_id

\* C2: once a session id is mapped, no step changes or removes its entry; a
\* step in which a turn fails leaves the whole map as it was; and a call that
\* starts with a mapped session id invokes the engine with the mapped thread.
C2_MappingNeverChanges ==
    [][ /\ \A s \in DOMAIN session_ids :
              s \in DOMAIN session_ids' /\ session_ids'[s] = session_ids[s]
        /\ (\E c \in CallIds : calls[c].error = None /\ calls'[c].error # None)
              => session_ids' = session_ids
        /\ (Len(calls') > Len(calls) /\ Configured
              /\ calls'[Len(calls')].session_id \in DOMAIN session_ids)
              => /\ calls'[Len(calls')].thread_id
                      = session_ids[calls'[Len(calls')].session_id]
                 /\ engine_calls'[Len(engine_calls')].thread_id
                      = session_ids[calls'[Len(calls')].session_id]
      ]_vars

\* C2 witness: a call started after a turn of its session had failed, and it
\* runs on the thread the failed turn used.
C2_Witness ==
    \E i, j \in CallIds :
        /\ i < j
        /\ calls[j].after_failure
        /\ calls[i].session_id = calls[j].session_id
        /\ calls[i].error = "RuntimeError"
        /\ calls[j].thread_id = calls[i].thread_id
        /\ session_ids[calls[j].session_id] = calls[i].thread_id

\* __init__ returned early or its try block raised.
ConstructedWithoutConfiguration ==
    env.endpoint \in {None, ""} \/ env.deployment_name \in {None, ""} \/ env.init_raises

\* C3: an orchestrator constructed without its configuration answers every
\* call with the fixed "not configured" reply, never invokes the engine and
\* performs no tool call.
C3_UnconfiguredAlwaysNotConfigured ==
    ConstructedWithoutConfiguration =>
        /\ engine_calls = <<>>
        /\ tool_executed = FALSE
        /\ \A i \in CallIds :
              /\ calls[i].pc = "returned"
              /\ calls[i].reply = [role |-> "assistant", content |-> NotConfiguredText]

\* C3 witness: two calls, one with a session id, answered without configuration.
C3_Witness ==
    /\ ConstructedWithoutConfiguration
    /\ \E i, j \in CallIds :
          /\ i # j
          /\ calls[i].session_id = "s1"
          /\ calls[j].session_id = None
          /\ calls[j].reply.content = NotConfiguredText

\* C4 as claimed: every call that has ended returned a reply of role
\* "assistant", and one whose engine invocation raised returned the fixed
\* failure reply.
C4_EveryCallReturnsReply ==
    \A i \in CallIds : calls[i].pc # "ainvoke" =>
        /\ calls[i].pc = "returned"
        /\ calls[i].reply.role = "assistant"
        /\ (calls[i].error # None
              => calls[i].reply = [role |-> "assistant", content |-> ErrorText])

\* C4 amended: an error deriving from Exception becomes the fixed failure
\* reply; every reply returned has role "assistant"; the only error that leaves
\* process_message is one outside Exception (a cancellation).
C4_ExceptionsBecomeErrorReply ==
    \A i \in CallIds :
        /\ (calls[i].error \notin {None, "CancelledError"}
              => /\ calls[i].pc = "returned"
                 /\ calls[i].reply = [role |-> "assistant", content |-> ErrorText])
        /\ (calls[i].pc = "returned" => calls[i].reply.role = "assistant")
        /\ (calls[i].pc = "raised" => calls[i].error = "CancelledError")

\* C4 witness: an engine invocation raised an ordinary error and the call
\* returned the failure reply.
C4_Witness ==
    \E i \in CallIds :
        /\ calls[i].error = "RuntimeError"
        /\ calls[i].pc = "returned"
        /\ calls[i].reply.content = ErrorText

\* A message the claim counts as assistant-authored with non-empty content: an
\* object or a record whose type tag is "ai" or "assistant".
IsReplyCandidate(m) ==
    /\ m.shape \in {"obj", "dict"}
    /\ m.type \in {"ai", "assistant"}
    /\ m.content \notin {None, ""}

\* The positions of the candidates in a result; none when the result is
\* malformed (not a dict, no message list).
CandidatePositions(r) ==
    IF r.kind = "dict" /\ r.messages_kind = "list"
    THEN {i \in 1..Len(r.messages) : IsReplyCandidate(r.messages[i])}
    ELSE {}

Newest(S) == CHOOSE i \in S : \A j \in S : j <= i

\* C5: the extractor never raises; it returns the content of the most recent
\* candidate, and the fallback string when there is none.
C5_ExtractNewestAssistant ==
    extracted # None =>
        /\ extracted # TypeErrorRaised
        /\ IF CandidatePositions(result) = {}
           THEN extracted = FallbackText
           ELSE extracted = result.messages[Newest(CandidatePositions(result))].content

\* C5 witness: the newest assistant message is empty and the reply is the
\* older one's content.
C5_Witness ==
    /\ extracted = "Hello"
    /\ result.kind = "dict" /\ result.messages_kind = "list"
    /\ Len(result.messages) = 2
    /\ result.messages[2].type = "ai" /\ result.messages[2].content = ""
    /\ result.messages[1].shape = "dict" /\ result.messages[1].type = "assistant"

\* A transcript of key/value records.
IsDictTranscript(r) ==
    /\ r.kind = "dict" /\ r.messages_kind = "list"
    /\ r.messages # <<>>
    /\ \A i \in 1..Len(r.messages) : r.messages[i].shape = "dict"

LastMsg(r) == r.messages[Len(r.messages)]

\* C6 as claimed: records tagged through a role field only; the last one is
\* the assistant's, with content: the reply is that content.
C6_RoleTaggedRecordsExtracted ==
    ( /\ extracted # None
      /\ IsDictTranscript(result)
      /\ \A i \in 1..Len(result.messages) :
            result.messages[i].type = None /\ result.messages[i].role # None
      /\ LastMsg(result).role = "assistant"
      /\ LastMsg(result).content \notin {None, ""} )
    => extracted = LastMsg(result).content

\* C6 amended: records tagged through a type field; the last one has type "ai"
\* or "assistant" and content: the reply is that content. Records tagged only
\* through a role field are not recognised: the reply is the fallback string.
C6_TypeTaggedRecordsExtracted ==
    (extracted # None /\ IsDictTranscript(result)) =>
        /\ ( /\ LastMsg(result).type \in {"ai", "assistant"}
             /\ LastMsg(result).content \notin {None, ""} )
           => extracted = LastMsg(result).content
        /\ (\A i \in 1..Len(result.messages) : result.messages[i].type = None)
           => extracted = FallbackText

\* C6 witness: the transcript of test_extract_assistant_text_from_dict.
C6_Witness ==
    /\ result = [kind |-> "dict", messages_kind |-> "list", messages |->
          << [shape |-> "dict", type |-> "user", role |-> None, content |-> "Hello"],
             [shape |-> "dict", type |-> "ai", role |-> None,
              content |-> "This is the answer"] >>]
    /\ extracted = "This is the answer"

\* C7: a call without a session id runs on a thread id no other call has and no
\* session is mapped to, invokes the engine with it, and adds nothing to the
\* session map: the map holds only session ids that calls carried.
C7_SessionlessCallsAreOneShot ==
    Configured =>
        /\ None \notin DOMAIN session_ids
        /\ DOMAIN session_ids \subseteq {calls[j].session_id : j \in CallIds} \ {None}
        /\ \A i \in CallIds : calls[i].session_id = None =>
              /\ \A j \in CallIds : j # i => calls[j].thread_id # calls[i].thread_id
              /\ \A s \in DOMAIN session_ids : session_ids[s] # calls[i].thread_id
              /\ \A e \in InvocationsOf(i) : engine_calls[e].thread_id = calls[i].thread_id

\* C7 witness: two calls without a session id have both invoked the engine.
C7_Witness ==
    \E i, j \in CallIds :
        /\ i # j
        /\ calls[i].session_id = None /\ calls[j].session_id = None
        /\ InvocationsOf(i) # {} /\ InvocationsOf(j) # {}
        /\ calls[i].thread_id # calls[j].thread_id

\* C8: on a configured orchestrator each call has invoked the engine exactly
\* once, with its resolved thread id and the caller's message, whether the
\* invocation is pending, returned or raised.
C8_EngineInvokedExactlyOnce ==
    Configured =>
        \A i \in CallIds :
            /\ Cardinality(InvocationsOf(i)) = 1
            /\ calls[i].thread_id # 0
            /\ (NamesSession(calls[i].session_id)
                  => calls[i].thread_id = session_ids[calls[i].session_id])
            /\ \A e \in InvocationsOf(i) :
                  /\ engine_calls[e].thread_id = calls[i].thread_id
                  /\ engine_calls[e].message = calls[i].message

\* C8 witness: an invocation failed and its call ended with that one invocation.
C8_Witness ==
    \E i \in CallIds :
        /\ calls[i].error = "RuntimeError"
        /\ calls[i].pc = "returned"
        /\ Cardinality(InvocationsOf(i)) = 1

IsPrefix(p, q) == Len(p) <= Len(q) /\ \A k \in 1..Len(p) : p[k] = q[k]

IdTools == {"getTask", "updateTask", "deleteTask"}

\* C9: a tool raises only when the store failed; getTask, updateTask and
\* deleteTask on an absent id answer "not found" and leave the store as it was;
\* getTasks on an empty store answers "No tasks found."; getTime on an unknown
\* timezone answers a text starting "Failed to get time for <name>:".
C9_ExpectedOutcomesAreText ==
    /\ (tool_out.outcome = "raise" => tool_out.store_failed)
    /\ ( /\ tool_out.tool \in IdTools
         /\ ~tool_out.store_failed
         /\ \A k \in DOMAIN tool_out.before : str(k) # tool_out.arg )
       => /\ tool_out.outcome = "text"
          /\ tool_out.text = <<"Task with ID ", tool_out.arg, " not found.">>
          /\ tasks = tool_out.before
    /\ (tool_out.tool = "getTasks" /\ ~tool_out.store_failed /\ DOMAIN tool_out.before = {})
       => (tool_out.outcome = "text" /\ tool_out.text = <<"No tasks found.">>)
    /\ (tool_out.tool = "getTime" /\ tool_out.arg \notin KnownZones)
       => /\ tool_out.outcome = "text"
          /\ IsPrefix(<<"Failed to get time for ", tool_out.arg, ":">>, tool_out.text)

\* C9 witness: deleteTask on an absent id of a non-empty store.
C9_Witness ==
    /\ tool_out.tool = "deleteTask"
    /\ ~tool_out.store_failed
    /\ DOMAIN tasks # {}
    /\ \A k \in DOMAIN tool_out.before : str(k) # tool_out.arg
    /\ tool_out.text = <<"Task with ID ", tool_out.arg, " not found.">>

\* C10: the empty string is never a key of the session map, and every call
\* carrying it runs on a thread id that this call drew from uuid4 itself, so no
\* two such calls share one.
C10_EmptySessionIdIsAbsent ==
    /\ "" \notin DOMAIN session_ids
    /\ Configured =>
          \A i \in CallIds : calls[i].session_id = "" =>
              /\ calls[i].thread_id \in 1..Len(uuid_log)
              /\ uuid_log[calls[i].thread_id] = [call |-> i, session_id |-> ""]
              /\ \A j \in CallIds :
                    (j # i /\ calls[j].session_id = "")
                        => calls[j].thread_id # calls[i].thread_id

\* C10 witness: two calls carrying the empty session id have invoked the engine.
C10_Witness ==
    \E i, j \in CallIds :
        /\ i # j
        /\ calls[i].session_id = "" /\ calls[j].session_id = ""
        /\ InvocationsOf(i) # {} /\ InvocationsOf(j) # {}

====
